---- MODULE Spec2Model ----
(***************************************************************************)
(* Model of the consilium agent graph: generator_node, critic_node,        *)
(* decide_next_step and editor_node wired by build_graph, driven by        *)
(* process_user_input, with the module-level _chat_sessions store.         *)
(*                                                                         *)
(* Python values are modelled as follows.  A list is a sequence, a dict a  *)
(* function on the set of its keys, None the string NoneStr.  A key that   *)
(* is missing from the graph state is modelled by the default the code     *)
(* reads it with (state.get("drafts_to_redo", []) reads <<>>).            *)
(***************************************************************************)
EXTENDS Integers, Sequences, FiniteSets, TLC

\* ------------------------------------------------------------------ values

\* config.MAX_ITERATIONS, imported by decision.py.  config.py is not among
\* the sources, so the value is chosen here; the status text of
\* decide_next_step declines "итерации" as for 2, 3 or 4.
MAX_ITERATIONS == 3

\* config.GRAPH_RECURSION_LIMIT, imported by graph.py and passed to
\* graph_app.invoke as recursion_limit.  config.py is not among the sources;
\* the value chosen here is the default of the graph library.
GRAPH_RECURSION_LIMIT == 25

\* A recursion_limit smaller than the longest path of the graph, for the
\* specification in which the limit is reached (SpecLimit).
LowRecursionLimit == 4

\* How many times the caller answers a suspended run.  Two let the caller
\* answer again after the invocation of a first answer raised.
MaxResumes == 2

\* How many times the caller answers in the runs of SpecAnswers, where the
\* failures and the session races are explored in full.
MaxAnswers == 1

NoneStr == "<None>"

\* How many generator_node executions of a run go wrong: a model call fails
\* in them, or their threads interleave so that a session is dropped (see
\* LostSets).
MaxFaults == 1

\* Outcome of a model call that raised instead of returning a message.
CallError == "<CallError>"

\* Outcome of a model call that returned a message.
CallOk == "ok"

\* The text the model returns to generator g in iteration n: a text of its
\* own for every call.
DraftText(g, n) ==
    LET texts == << <<"d1.1", "d1.2", "d1.3", "d1.4", "d1.5", "d1.6">>,
                    <<"d2.1", "d2.2", "d2.3", "d2.4", "d2.5", "d2.6">>,
                    <<"d3.1", "d3.2", "d3.3", "d3.4", "d3.5", "d3.6">> >>
    IN  texts[g][IF n > 6 THEN 6 ELSE n]

\* The text the model returns to the editor.
SummaryText == "summary"

\* The run identifier the caller put into the graph state.
ChatUuid == "u1"

\* Values of generator_nums in generator_node (draft_1, draft_2, draft_3).
GeneratorNums == {1, 2, 3}

Range(s) == {s[i] : i \in 1..Len(s)}

\* Python truthiness of a str-or-None value.
TruthyStr(s) == s # NoneStr /\ s # ""

\* ---------------------------------------------------------------- decision

\* Faulty variant of decide_next_step: the ceiling is tested before the
\* questions.
decide_ceiling_first(st) ==
    IF st.iteration_count >= MAX_ITERATIONS THEN "editor"
    ELSE IF st.questions_for_user # <<>> THEN "ask_user"
    ELSE IF st.critiques # <<>> THEN "generator"
    ELSE "editor"

\* Faulty variant of decide_next_step: the critiques are tested before the
\* ceiling.
decide_critiques_first(st) ==
    IF st.questions_for_user # <<>> THEN "ask_user"
    ELSE IF st.critiques # <<>> THEN "generator"
    ELSE IF st.iteration_count >= MAX_ITERATIONS THEN "editor"
    ELSE "editor"

\* Faulty variant of decide_next_step: the third test reads drafts_to_redo
\* instead of critiques.
decide_by_redo(st) ==
    IF st.questions_for_user # <<>> THEN "ask_user"
    ELSE IF st.iteration_count >= MAX_ITERATIONS THEN "editor"
    ELSE IF st.drafts_to_redo # <<>> THEN "generator"
    ELSE "editor"

\* Faulty variant of decide_next_step: the ceiling test is strict.
decide_ceiling_strict(st) ==
    IF st.questions_for_user # <<>> THEN "ask_user"
    ELSE IF st.iteration_count > MAX_ITERATIONS THEN "editor"
    ELSE IF st.critiques # <<>> THEN "generator"
    ELSE "editor"

\* Faulty variant of decide_next_step: below the ceiling a verdict without
\* questions always leads to another generator cycle.
decide_always_redo(st) ==
    IF st.questions_for_user # <<>> THEN "ask_user"
    ELSE IF st.iteration_count >= MAX_ITERATIONS THEN "editor"
    ELSE "generator"

\* Faulty variant of decide_next_step: the third test reads drafts_to_redo
\* as well as critiques.
decide_by_redo_or_critiques(st) ==
    IF st.questions_for_user # <<>> THEN "ask_user"
    ELSE IF st.iteration_count >= MAX_ITERATIONS THEN "editor"
    ELSE IF st.critiques # <<>> \/ st.drafts_to_redo # <<>> THEN "generator"
    ELSE "editor"

\* decide_next_step: the name of the next node.
decide_next_step(st) ==
    IF st.questions_for_user # <<>> THEN "ask_user"
    ELSE IF st.iteration_count >= MAX_ITERATIONS THEN "editor"
    ELSE IF st.critiques # <<>> THEN "generator"
    ELSE "editor"

\* Faulty variant of RouteTarget: "editor" is mapped to END.
RouteEditorToEnd(r) ==
    CASE r = "ask_user" -> "END"
      [] r = "generator" -> "generator"
      [] r = "editor" -> "END"

\* Faulty variant of RouteTarget: "ask_user" is mapped to the editor.
RouteAskToEditor(r) ==
    CASE r = "ask_user" -> "editor"
      [] r = "generator" -> "generator"
      [] r = "editor" -> "editor"

\* The mapping of add_conditional_edges: route name -> next node.
RouteTarget(r) ==
    CASE r = "ask_user" -> "END"
      [] r = "generator" -> "generator"
      [] r = "editor" -> "editor"

\* ------------------------------------------------------------ session store

EmptyDict == [k \in {} |-> <<>>]

\* The list _get_chat_session returns for (chat_uuid, generator_num).
SessionOf(cs, u, g) ==
    IF u \in DOMAIN cs /\ g \in DOMAIN cs[u] THEN cs[u][g] ELSE <<>>

\* _get_chat_session: the store after the get-or-create of both levels.
_get_chat_session(cs, u, g) ==
    LET c1 == IF u \in DOMAIN cs THEN cs ELSE cs @@ (u :> EmptyDict)
    IN  IF g \in DOMAIN c1[u] THEN c1
        ELSE [c1 EXCEPT ![u] = @ @@ (g :> <<>>)]

\* Faulty variant of SessionAppend: the message is not stored.
SessionAppendNothing(cs, u, g, m) == _get_chat_session(cs, u, g)

\* session.append(message) on the list of (u, g).
SessionAppend(cs, u, g, m) ==
    LET c1 == _get_chat_session(cs, u, g)
    IN  [c1 EXCEPT ![u][g] = Append(@, m)]

AssistantMsg(text) == [role |-> "assistant", content |-> text]

\* The fixed request text generator_node appends after the calls.
UserMsg == [role |-> "user", content |-> "revise"]

\* Faulty variant of DropRun: the sessions are kept.
KeepRun(cs, u) == cs

\* del _chat_sessions[chat_uuid] when present.
DropRun(cs, u) == [k \in DOMAIN cs \ {u} |-> cs[k]]

\* ---------------------------------------------------------------- generator

\* config.GENERATOR_STYLES[key] for generator g.  config.py is not among the
\* sources; the texts stand for its three style descriptions.
GENERATOR_STYLES(g) == << "style 1", "style 2", "style 3" >>[g]

\* The literal prepare_input puts in place of a value it does not send.
NoValue == "No"

\* The literal prepare_input puts in place of the critiques when there are
\* none.
NoCritiques == "No critiques."

\* "\n".join(critiques).
RECURSIVE Join(_)
Join(critiques) ==
    IF critiques = <<>> THEN ""
    ELSE IF Len(critiques) = 1 THEN critiques[1]
    ELSE critiques[1] \o "\n" \o Join(Tail(critiques))

\* state.get("critiques_by_generator", {}).get(generator_num, []).
CritiquesOf(st, g) ==
    IF g \in DOMAIN st.critiques_by_generator
    THEN st.critiques_by_generator[g] ELSE <<>>

\* Faulty variant of prepare_input: a revision sends the critiques alone.
prepare_input_critiques_only(session, st, g) ==
    IF session = <<>>
    THEN [topic |-> st.topic,
          style_description |-> GENERATOR_STYLES(g),
          file_content |-> st.file_content,
          critiques |-> NoCritiques,
          user_response |-> st.user_response]
    ELSE [topic |-> NoValue,
          style_description |-> NoValue,
          file_content |-> NoValue,
          critiques |-> IF CritiquesOf(st, g) # <<>>
                        THEN Join(CritiquesOf(st, g)) ELSE NoCritiques,
          user_response |-> NoValue]

\* prepare_input of the chain of generator g: the values the prompt template
\* is filled with, given the session the chain found.
prepare_input(session, st, g) ==
    IF session = <<>>
    THEN [topic |-> st.topic,
          style_description |-> GENERATOR_STYLES(g),
          file_content |-> st.file_content,
          critiques |-> NoCritiques,
          user_response |-> st.user_response]
    ELSE [topic |-> st.topic,
          style_description |-> GENERATOR_STYLES(g),
          file_content |-> NoValue,
          critiques |-> IF CritiquesOf(st, g) # <<>>
                        THEN Join(CritiquesOf(st, g)) ELSE NoCritiques,
          user_response |-> NoValue]

\* Faulty variant of ModelInput: the session's messages precede the request.
ModelInputWithHistory(session, request) == session \o << request >>

\* The messages the chain "prepare_input | generator_prompt_template | llm"
\* passes to the model: the template's one message, filled with the request
\* values; the session is not part of it.
ModelInput(session, request) == << request >>

\* The model input of every chain of a RunnableParallel run that starts
\* with the store cs.
ModelInputs(cs, st, chains) ==
    [g \in chains |->
        ModelInput(SessionOf(cs, st.chat_uuid, g),
                   prepare_input(SessionOf(cs, st.chat_uuid, g), st, g))]

\* Faulty variant of ResolveRedo: an empty list stands for all three
\* generators in the first iteration only.
ResolveRedoFirstOnly(drafts_to_redo, iteration) ==
    IF iteration = 1 THEN <<1, 2, 3>> ELSE drafts_to_redo

\* The redo list generator_node works with.
ResolveRedo(drafts_to_redo, iteration) ==
    IF drafts_to_redo = <<>> \/ iteration = 1 THEN <<1, 2, 3>>
    ELSE drafts_to_redo

\* Faulty variant of ChainsToRun: every generator runs, whatever the list.
ChainsAll(redo) == {1, 2, 3}

\* Keys of chains_to_run, as generator numbers.
ChainsToRun(redo) == {g \in GeneratorNums : g \in Range(redo)}

Outcomes == {CallOk, CallError}

\* Faulty variant of Results: the run returns with the answer of the first
\* chain, without waiting for the others.
ResultsOfFirst(chains, iteration) ==
    [g \in {h \in chains : \A k \in chains : h <= k} |->
        DraftText(g, iteration)]

\* results of RunnableParallel when every call returned: chain -> text.
Results(chains, iteration) == [g \in chains |-> DraftText(g, iteration)]

\* The chains of one RunnableParallel run in threads.  _get_chat_session
\* tests "chat_uuid not in _chat_sessions" and then stores a new dict: a
\* thread that saw the run missing may store its new dict after other
\* threads created and filled their sessions, which drops them.  LostSets is
\* the set of possible sets of chains whose session is dropped that way:
\* none when the run's dict exists before the threads start or when fewer
\* than two chains run; otherwise any set that leaves out the thread whose
\* store came last.
LostSets(cs, u, chains) ==
    IF u \in DOMAIN cs \/ Cardinality(chains) < 2 THEN {{}}
    ELSE {W \in SUBSET chains : W # chains}

\* LostSets under the bound MaxFaults, n executions having gone wrong.
BoundedLostSets(cs, u, chains, n) ==
    IF n < MaxFaults THEN LostSets(cs, u, chains) ELSE {{}}

\* The store after one RunnableParallel run: prepare_input gets or creates
\* the session of each chain, process_response appends the answer of each
\* chain whose call returned.
RunChains(cs, u, chains, out, lost, iteration) ==
    IF chains = {} THEN cs
    ELSE LET old == IF u \in DOMAIN cs THEN cs[u] ELSE EmptyDict
             keys == (DOMAIN old \cup chains) \ lost
             run == [g \in keys |->
                        IF g \notin chains THEN old[g]
                        ELSE LET before == IF g \in DOMAIN old THEN old[g]
                                           ELSE <<>>
                             IN  IF out[g] = CallError THEN before
                                 ELSE Append(before, AssistantMsg(
                                                 DraftText(g, iteration)))]
         IN  [k \in DOMAIN cs \cup {u} |-> IF k = u THEN run ELSE cs[k]]

\* The loop "for gen_num in drafts_to_redo" after the calls: gets or creates
\* each session and appends the request text to the non-empty ones.
RECURSIVE AppendRequests(_, _, _)
AppendRequests(cs, u, redo) ==
    IF redo = <<>> THEN cs
    ELSE LET c1 == _get_chat_session(cs, u, Head(redo))
             c2 == IF c1[u][Head(redo)] # <<>>
                   THEN SessionAppend(c1, u, Head(redo), UserMsg)
                   ELSE c1
         IN  AppendRequests(c2, u, Tail(redo))

\* One entry of the final drafts list (draft_index = i).
DraftFor(i, existing, redo, results) ==
    IF i \in Range(redo) /\ i \in DOMAIN results THEN results[i]
    ELSE IF i <= Len(existing) /\ existing[i] # "" THEN existing[i]
    ELSE ""

\* Faulty variant of AssembleDrafts: only the new drafts are appended.
AssembleNewOnly(existing, redo, results) ==
    SelectSeq([i \in 1..3 |->
                  IF i \in Range(redo) /\ i \in DOMAIN results
                  THEN results[i] ELSE NoneStr],
              LAMBDA x : x # NoneStr)

\* The drafts list generator_node returns.
AssembleDrafts(existing, redo, results) ==
    [i \in 1..3 |-> DraftFor(i, existing, redo, results)]

\* Faulty variant of LoggedIndices: a record for every draft of the list
\* generator_node returns.
LoggedEveryDraft(redo, results) == {1, 2, 3}

\* Indices for which generator_node calls log_agent_response.
LoggedIndices(redo, results) == {i \in 1..3 : i \in Range(redo) /\ i \in DOMAIN results}

\* Faulty variant of LogRecords: after the records of the new drafts, a
\* warning record for each index of the list that names no generator.
LogRecordsWarned(redo, results) ==
    SelectSeq(<<1, 2, 3>>, LAMBDA i : i \in LoggedIndices(redo, results))
        \o SelectSeq(redo, LAMBDA i : i \notin GeneratorNums)

\* The log_agent_response calls of the drafts loop "for i in range(3)", in
\* the order it makes them: the generator numbers of the records.
LogRecords(redo, results) ==
    SelectSeq(<<1, 2, 3>>, LAMBDA i : i \in LoggedIndices(redo, results))

\* How many of these calls return: all of them, or those before the one
\* that raises.
WrittenCounts(redo, results, log_ok) ==
    LET n == Len(LogRecords(redo, results))
    IN  IF log_ok THEN {n} ELSE 0..(n - 1)

\* Faulty variant of GeneratorUpdate: user_response is not reset.
GeneratorUpdateKeepResponse(st, drafts, iteration) ==
    [st EXCEPT !.drafts = drafts,
               !.iteration_count = iteration,
               !.drafts_to_redo = <<>>]

\* The update generator_node returns, merged into the graph state.
GeneratorUpdate(st, drafts, iteration) ==
    [st EXCEPT !.drafts = drafts,
               !.user_response = NoneStr,
               !.iteration_count = iteration,
               !.drafts_to_redo = <<>>]

\* ------------------------------------------------------------------- critic

\* int(key) for the keys of the decoded "critiques_by_generator" object.
IntOfKey(k) ==
    CASE k = "1" -> 1
      [] k = "2" -> 2
      [] k = "3" -> 3

\* Whether int(key) returns for a key of the decoded object; it raises
\* ValueError for any other text.
IsIntKey(k) == k \in {"1", "2", "3"}

\* Decoded "critiques_by_generator" objects a critic answer can carry: the
\* pairs <<key, list of critiques>> in the order of the JSON text.
CbgObjects ==
    { << <<"2", <<"c2">>>>, <<"1", <<"c1a", "c1b">>>> >> }

\* Decoded "drafts_to_redo" lists, when the object has the key.
RedoLists == { <<>>, <<1>>, <<2, 4>> }

\* Decoded "questions_for_user" lists (a missing key reads as the empty list).
QuestionLists == { <<>>, <<"q">> }

\* What the critic model can answer: text json.loads rejects, or a JSON
\* object with or without the "critiques_by_generator" key, and with or
\* without the "drafts_to_redo" key (has_redo).  Without the first key: an
\* approval, an approval that still lists a draft, questions.  With it:
\* every redo list, no redo list, questions next to a redo list, and an
\* object whose key is not the text of an integer.
CriticResponses ==
    { [kind |-> "text", content |-> "raw", has_cbg |-> FALSE, cbg |-> <<>>,
       questions |-> <<>>, has_redo |-> FALSE, redo |-> <<>>] }
    \cup
    { [kind |-> "json", content |-> "json", has_cbg |-> FALSE, cbg |-> <<>>,
       questions |-> <<>>, has_redo |-> r # <<>>, redo |-> r] :
         r \in {<<>>, <<1>>} }
    \cup
    { [kind |-> "json", content |-> "json", has_cbg |-> FALSE, cbg |-> <<>>,
       questions |-> q, has_redo |-> FALSE, redo |-> <<>>] :
         q \in QuestionLists \ {<<>>} }
    \cup
    { [kind |-> "json", content |-> "json", has_cbg |-> TRUE, cbg |-> c,
       questions |-> <<>>, has_redo |-> TRUE, redo |-> r] :
         c \in CbgObjects, r \in RedoLists }
    \cup
    { [kind |-> "json", content |-> "json", has_cbg |-> TRUE, cbg |-> c,
       questions |-> <<>>, has_redo |-> FALSE, redo |-> <<>>] :
         c \in CbgObjects }
    \cup
    { [kind |-> "json", content |-> "json", has_cbg |-> TRUE, cbg |-> c,
       questions |-> q, has_redo |-> TRUE, redo |-> <<1>>] :
         c \in CbgObjects, q \in QuestionLists \ {<<>>} }
    \cup
    { [kind |-> "json", content |-> "json", has_cbg |-> TRUE,
       cbg |-> << <<"first", <<"c">>>> >>,
       questions |-> <<>>, has_redo |-> FALSE, redo |-> <<>>] }

\* Whether the loop over the decoded object's items converts every key.
KeysConvert(resp) ==
    \A i \in DOMAIN resp.cbg : IsIntKey(resp.cbg[i][1])

\* The dict built by "critiques_by_generator[int(key)] = value".
RECURSIVE ConvertKeys(_)
ConvertKeys(pairs) ==
    IF pairs = <<>> THEN EmptyDict
    ELSE LET n == Len(pairs)
             rest == ConvertKeys(SubSeq(pairs, 1, n - 1))
             g == IntOfKey(pairs[n][1])
         IN  [k \in DOMAIN rest \cup {g} |->
                 IF k = g THEN pairs[n][2] ELSE rest[k]]

\* Faulty variant of AllCritiques: the lists joined by ascending generator
\* number, whatever the order of the decoded object's keys.
AllCritiquesAscending(pairs) ==
    LET d == ConvertKeys(pairs)
        at(g) == IF g \in DOMAIN d THEN d[g] ELSE <<>>
    IN  at(1) \o at(2) \o at(3)

\* all_critiques: the lists of the dict joined in its iteration order, which
\* is the order of the pairs.
RECURSIVE AllCritiques(_)
AllCritiques(pairs) ==
    IF pairs = <<>> THEN <<>>
    ELSE Head(pairs)[2] \o AllCritiques(Tail(pairs))

\* Faulty variant of RedoOf: without the key, the list is the generators
\* the decoded object has a critique for, in the object's order.
RedoDerived(resp) ==
    IF resp.has_redo THEN resp.redo
    ELSE LET with == SelectSeq(resp.cbg, LAMBDA p : p[2] # <<>>)
         IN  [i \in 1..Len(with) |-> IntOfKey(with[i][1])]

\* result.get("drafts_to_redo", []).
RedoOf(resp) == IF resp.has_redo THEN resp.redo ELSE <<>>

\* Faulty variant of CriticParsed: an answer without questions leaves
\* questions_for_user as it was.
CriticParsedKeepQuestions(resp) ==
    LET pairs == IF resp.has_cbg THEN resp.cbg ELSE <<>>
    IN  IF resp.questions # <<>>
        THEN [critiques |-> AllCritiques(pairs),
              critiques_by_generator |-> ConvertKeys(pairs),
              questions_for_user |-> resp.questions,
              drafts_to_redo |-> RedoOf(resp)]
        ELSE [critiques |-> AllCritiques(pairs),
              critiques_by_generator |-> ConvertKeys(pairs),
              drafts_to_redo |-> RedoOf(resp)]

\* The update critic_node returns when json.loads accepted the answer.
CriticParsed(resp) ==
    LET pairs == IF resp.has_cbg THEN resp.cbg ELSE <<>>
    IN  [critiques |-> AllCritiques(pairs),
         critiques_by_generator |-> ConvertKeys(pairs),
         questions_for_user |-> resp.questions,
         drafts_to_redo |-> RedoOf(resp)]

\* Faulty variant of CriticFailSafe: the undecodable answer is dropped.
CriticFailSafeDrop(resp) ==
    [critiques |-> <<>>,
     critiques_by_generator |-> EmptyDict,
     questions_for_user |-> <<>>,
     drafts_to_redo |-> <<>>]

\* The update critic_node returns from its except branch.
CriticFailSafe(resp) ==
    [critiques |-> <<resp.content>>,
     critiques_by_generator |-> [g \in {1, 2, 3} |-> <<resp.content>>],
     questions_for_user |-> <<>>,
     drafts_to_redo |-> <<1, 2, 3>>]

\* The update critic_node returns for an answer.
CriticUpdate(resp) ==
    IF resp.kind = "json" THEN CriticParsed(resp) ELSE CriticFailSafe(resp)

\* A node's update merged into the graph state, key by key.
Merge(st, upd) ==
    [f \in DOMAIN st |-> IF f \in DOMAIN upd THEN upd[f] ELSE st[f]]

\* -------------------------------------------------------------------- state

VARIABLES
    state,                   \* the AgentState the graph threads through its nodes
    chat_sessions,           \* generator._chat_sessions
    pc,                      \* where the invocation stands
    route,                   \* the last value of decide_next_step
    awaiting_user_response,  \* st.session_state.awaiting_user_response
    current_graph_state,     \* st.session_state.current_graph_state: <<>> or <<state>>
    resumes,                 \* resumptions so far
    failed_runs,             \* generator_node executions with a failed call
    races,                   \* generator_node executions that dropped a session
    gen_call,                \* history: the last execution of generator_node
    critic_call,             \* history: critic_node in the current invocation
    invocation,              \* history: the stages of the current invocation
    recursion_limit          \* config["recursion_limit"] given to graph_app.invoke

vars == << state, chat_sessions, pc, route, awaiting_user_response,
           current_graph_state, resumes, failed_runs, races, gen_call,
           critic_call, invocation, recursion_limit >>

\* graph_input of a new request in process_user_input, with the run
\* identifier the nodes read from the state.
FreshState ==
    [topic |-> "X",
     file_content |-> "F",
     drafts |-> <<>>,
     critiques |-> <<>>,
     critiques_by_generator |-> EmptyDict,
     questions_for_user |-> <<>>,
     user_response |-> NoneStr,
     final_summary |-> NoneStr,
     iteration_count |-> 0,
     drafts_to_redo |-> <<>>,
     chat_uuid |-> ChatUuid]

NoGenCall ==
    [outcome |-> "none", redo |-> <<>>, failed1 |-> {}, failed2 |-> {},
     results |-> EmptyDict, pre_drafts |-> <<>>, pre_sessions |-> EmptyDict,
     inputs |-> EmptyDict, calls |-> EmptyDict, logged |-> <<>>]

NoCriticCall ==
    [outcome |-> "none", kind |-> "none", content |-> "", has_cbg |-> FALSE,
     cbg |-> <<>>, questions |-> <<>>, has_redo |-> FALSE, redo |-> <<>>]

\* History: what a critic execution left in the state for the decision.
Verdict(st) ==
    [critiques |-> st.critiques, questions |-> st.questions_for_user,
     redo |-> st.drafts_to_redo]

NoInvocation == [fresh |-> FALSE, stages |-> <<>>, verdicts |-> <<>>]

Init ==
    /\ state = FreshState
    /\ chat_sessions = EmptyDict
    /\ pc = "start"
    /\ route = "none"
    /\ awaiting_user_response = FALSE
    /\ current_graph_state = <<>>
    /\ resumes = 0
    /\ failed_runs = 0
    /\ races = 0
    /\ gen_call = NoGenCall
    /\ critic_call = NoCriticCall
    /\ invocation = NoInvocation
    /\ recursion_limit = GRAPH_RECURSION_LIMIT

\* ------------------------------------------------------------------ actions

\* What the caller types: a topic, or the answer to the critic's questions.
Prompts == {"ans"}

\* log_agent_response creates the log directory and appends to the log file;
\* nothing in it or around its calls catches an exception.  TRUE: it returned.
LogOutcomes(logged) == IF logged = {} THEN {TRUE} ELSE BOOLEAN

\* Faulty variant of StepsLeft: the number of executed nodes is not limited.
StepsUnlimited == TRUE

\* The graph runs a node only while the invocation has executed fewer nodes
\* than recursion_limit.
StepsLeft == Len(invocation.stages) < recursion_limit

\* process_user_input, new request: builds graph_input and starts the graph
\* at its entry point.
FreshRun ==
    /\ pc = "start"
    /\ UNCHANGED recursion_limit
    /\ ~(awaiting_user_response /\ current_graph_state # <<>>)
    /\ state' = FreshState
    /\ pc' = "generator"
    /\ invocation' = [fresh |-> TRUE, stages |-> <<>>, verdicts |-> <<>>]
    /\ UNCHANGED << chat_sessions, route, awaiting_user_response,
                    current_graph_state, resumes, failed_runs, races, gen_call,
                    critic_call >>

\* process_user_input, continuation: the saved state, with the prompt stored
\* into it as user_response, is the graph input.
Resume ==
    /\ pc \in {"idle", "raised"}
    /\ UNCHANGED recursion_limit
    /\ awaiting_user_response /\ current_graph_state # <<>>
    /\ resumes < MaxResumes
    /\ \E prompt \in Prompts :
         LET graph_input == [current_graph_state[1] EXCEPT
                                !.user_response = prompt]
         IN  /\ state' = graph_input
             /\ current_graph_state' = << graph_input >>
    /\ pc' = "generator"
    /\ resumes' = resumes + 1
    /\ invocation' = [fresh |-> FALSE, stages |-> <<>>, verdicts |-> <<>>]
    /\ critic_call' = NoCriticCall
    /\ UNCHANGED << chat_sessions, route, awaiting_user_response, failed_runs,
                    races, gen_call >>

\* Faulty variant of CallsIssued: no run is repeated.
CallsIssuedOnce(chains, f1) == [g \in chains |-> 1]

\* How many model calls generator_node issues for each chain: one in the
\* first RunnableParallel run and, when a call of that run failed, one more
\* in the run of the except branch, which starts every chain again.
CallsIssued(chains, f1) == [g \in chains |-> IF f1 = {} THEN 1 ELSE 2]

\* The store the chains of the last RunnableParallel run of generator_node
\* start with: the store as it is when no call of the first run failed,
\* without the run's sessions otherwise.
StoreAtCalls(f1) ==
    IF f1 = {} THEN chat_sessions ELSE DropRun(chat_sessions, state.chat_uuid)

\* generator_node from the calls' results on: the request loop, the drafts
\* list with one log record per new draft, the returned update.
GeneratorFinish(cs, redo, results, iteration, f1, log_ok) ==
    /\ chat_sessions' = AppendRequests(cs, state.chat_uuid, redo)
    /\ \E written \in WrittenCounts(redo, results, log_ok) :
       gen_call' = [outcome |-> IF log_ok THEN "returned" ELSE "raised",
                    logged |-> SubSeq(LogRecords(redo, results), 1, written),
                    redo |-> redo, failed1 |-> f1, failed2 |-> {},
                    results |-> results,
                    pre_drafts |-> state.drafts,
                    pre_sessions |-> chat_sessions,
                    inputs |-> ModelInputs(StoreAtCalls(f1), state,
                                           ChainsToRun(redo)),
                    calls |-> CallsIssued(ChainsToRun(redo), f1)]
    /\ IF log_ok
       THEN /\ state' = GeneratorUpdate(
                            state,
                            AssembleDrafts(state.drafts, redo, results),
                            iteration)
            /\ pc' = "critic"
            /\ invocation' = [invocation EXCEPT
                                !.stages = Append(@, "generator")]
       ELSE /\ pc' = "raised"
            /\ UNCHANGED << state, invocation >>

\* Faulty variant of GeneratorRaise: the second failure is swallowed and
\* generator_node returns with the drafts it had.
GeneratorSwallow(cs, redo, f1, f2) ==
    GeneratorFinish(cs, redo, EmptyDict, state.iteration_count + 1, f1, TRUE)

\* generator_node when the second RunnableParallel raises too: the exception
\* leaves the node and the graph.
GeneratorRaise(cs, redo, f1, f2) ==
    /\ chat_sessions' = cs
    /\ gen_call' = [outcome |-> "raised", redo |-> redo, failed1 |-> f1,
                    failed2 |-> f2, results |-> EmptyDict, logged |-> <<>>,
                    pre_drafts |-> state.drafts,
                    pre_sessions |-> chat_sessions,
                    inputs |-> ModelInputs(StoreAtCalls(f1), state,
                                           ChainsToRun(redo)),
                    calls |-> CallsIssued(ChainsToRun(redo), f1)]
    /\ pc' = "raised"
    /\ UNCHANGED << state, invocation >>

Failed(chains, out) == {g \in chains : out[g] = CallError}

\* generator_node.
GeneratorNode ==
    /\ pc = "generator"
    /\ StepsLeft
    /\ UNCHANGED recursion_limit
    /\ LET u == state.chat_uuid
           iteration == state.iteration_count + 1
           redo == ResolveRedo(state.drafts_to_redo, iteration)
           chains == ChainsToRun(redo)
           results == Results(chains, iteration)
       IN  \E out1 \in [chains -> Outcomes] :
             LET f1 == Failed(chains, out1)
             IN  IF f1 = {}
                 THEN \E lost1 \in BoundedLostSets(chat_sessions, u, chains,
                                                   failed_runs + races) :
                        LET cs1 == RunChains(chat_sessions, u, chains, out1,
                                             lost1, iteration)
                        IN  /\ \E log_ok \in LogOutcomes(
                                     LoggedIndices(redo, results)) :
                                 GeneratorFinish(cs1, redo, results,
                                                 iteration, f1, log_ok)
                            /\ failed_runs' = failed_runs
                            /\ races' = races + (IF lost1 = {} THEN 0 ELSE 1)
                 ELSE /\ failed_runs + races < MaxFaults
                      /\ failed_runs' = failed_runs + 1
                      /\ \E out2 \in [chains -> Outcomes] :
                         \E lost2 \in BoundedLostSets(
                                         DropRun(chat_sessions, u), u,
                                         chains, failed_runs + races + 1) :
                           LET cs2 == RunChains(DropRun(chat_sessions, u), u,
                                                chains, out2, lost2,
                                                iteration)
                               f2 == Failed(chains, out2)
                           IN  /\ races' = races
                                            + (IF lost2 = {} THEN 0 ELSE 1)
                               /\ IF f2 = {}
                                  THEN \E log_ok \in LogOutcomes(
                                           LoggedIndices(redo, results)) :
                                         GeneratorFinish(cs2, redo, results,
                                                         iteration, f1,
                                                         log_ok)
                                  ELSE GeneratorRaise(cs2, redo, f1, f2)
    /\ UNCHANGED << route, awaiting_user_response, current_graph_state,
                    resumes, critic_call >>

\* Faulty variant of CriticCallRaise: the failed call is handled like an
\* answer json.loads rejects.
CriticCallFailSafe ==
    LET merged == Merge(state, CriticFailSafe([content |-> CallError]))
    IN  /\ critic_call' = [NoCriticCall EXCEPT !.outcome = "call_raised"]
        /\ state' = merged
        /\ route' = decide_next_step(merged)
        /\ pc' = RouteTarget(decide_next_step(merged))
        /\ invocation' = [invocation EXCEPT
                            !.stages = Append(@, "critic"),
                            !.verdicts = Append(@, Verdict(merged))]

\* critic_node when the critic's model call raises: chain.invoke stands
\* before the try block, the exception leaves the node and the graph.
CriticCallRaise ==
    /\ pc' = "raised"
    /\ critic_call' = [NoCriticCall EXCEPT !.outcome = "call_raised"]
    /\ UNCHANGED << state, invocation, route >>

\* critic_node and the conditional edge that follows it in the same graph
\* step: decide_next_step reads the state with the critic's update merged in.
\* A failing critic call raises before the try block; an exception of
\* log_agent_response, or the ValueError of int(key), is none of those the
\* except clause catches.
CriticNode ==
    /\ pc = "critic"
    /\ StepsLeft
    /\ UNCHANGED recursion_limit
    /\ \/ CriticCallRaise
       \/ /\ pc' = "raised"
          /\ critic_call' = [NoCriticCall EXCEPT !.outcome = "log_raised"]
          /\ UNCHANGED << state, invocation, route >>
       \/ \E resp \in CriticResponses :
            IF resp.kind = "json" /\ ~KeysConvert(resp)
            THEN /\ pc' = "raised"
                 /\ critic_call' = [outcome |-> "key_raised",
                                    kind |-> resp.kind,
                                    content |-> resp.content,
                                    has_cbg |-> resp.has_cbg,
                                    cbg |-> resp.cbg,
                                    questions |-> resp.questions,
                                    has_redo |-> resp.has_redo,
                                    redo |-> resp.redo]
                 /\ UNCHANGED << state, invocation, route >>
            ELSE
            LET merged == Merge(state, CriticUpdate(resp))
            IN  /\ critic_call' = [outcome |-> "returned", kind |-> resp.kind,
                                   content |-> resp.content,
                                   has_cbg |-> resp.has_cbg,
                                   cbg |-> resp.cbg,
                                   questions |-> resp.questions,
                                   has_redo |-> resp.has_redo,
                                   redo |-> resp.redo]
                /\ state' = merged
                /\ route' = decide_next_step(merged)
                /\ pc' = RouteTarget(decide_next_step(merged))
                /\ invocation' = [invocation EXCEPT
                                    !.stages = Append(@, "critic"),
                                    !.verdicts = Append(@, Verdict(merged))]
    /\ UNCHANGED << chat_sessions, awaiting_user_response,
                    current_graph_state, resumes, failed_runs, races,
                    gen_call >>

\* decide_next_step applied to a state, on its own.
DecideNextStep ==
    /\ pc = "decide"
    /\ UNCHANGED recursion_limit
    /\ route' = decide_next_step(state)
    /\ pc' = RouteTarget(decide_next_step(state))
    /\ UNCHANGED << state, chat_sessions, awaiting_user_response,
                    current_graph_state, resumes, failed_runs, races,
                    gen_call, critic_call, invocation >>

\* editor_node, followed by the edge to END.
EditorNode ==
    /\ pc = "editor"
    /\ StepsLeft
    /\ UNCHANGED recursion_limit
    /\ \E out \in Outcomes :
         IF out = CallError
         THEN /\ pc' = "raised"
              /\ UNCHANGED << state, invocation >>
         ELSE /\ state' = [state EXCEPT !.final_summary = SummaryText]
              /\ pc' = "END"
              /\ invocation' = [invocation EXCEPT
                                  !.stages = Append(@, "editor")]
    /\ UNCHANGED << chat_sessions, route, awaiting_user_response,
                    current_graph_state, resumes, failed_runs, races, gen_call,
                    critic_call >>

\* process_user_input after graph_app.invoke returned final_state.
ProcessResult ==
    /\ pc = "END"
    /\ UNCHANGED recursion_limit
    /\ pc' = "idle"
    /\ IF state.questions_for_user # <<>>
       THEN /\ awaiting_user_response' = TRUE
            /\ current_graph_state' = << state >>
       ELSE IF TruthyStr(state.final_summary)
       THEN /\ awaiting_user_response' = FALSE
            /\ current_graph_state' = <<>>
       ELSE UNCHANGED << awaiting_user_response, current_graph_state >>
    /\ UNCHANGED << state, chat_sessions, route, resumes, failed_runs,
                    races, gen_call, critic_call, invocation >>

Next ==
    \/ FreshRun
    \/ Resume
    \/ GeneratorNode
    \/ CriticNode
    \/ EditorNode
    \/ ProcessResult

Spec == Init /\ [][Next]_vars

\* The run in which every generator call returns and no session is dropped
\* (the executions counted by MaxFaults are used up) and the caller answers
\* once.
InitFair ==
    /\ state = FreshState
    /\ chat_sessions = EmptyDict
    /\ pc = "start"
    /\ route = "none"
    /\ awaiting_user_response = FALSE
    /\ current_graph_state = <<>>
    /\ resumes = MaxResumes - 1
    /\ failed_runs = MaxFaults
    /\ races = 0
    /\ gen_call = NoGenCall
    /\ critic_call = NoCriticCall
    /\ invocation = NoInvocation
    /\ recursion_limit = GRAPH_RECURSION_LIMIT

\* The graph runs the node that is due: an invocation does not stop between
\* two nodes.
SpecFair ==
    /\ InitFair
    /\ [][Next]_vars
    /\ WF_vars(GeneratorNode)
    /\ WF_vars(CriticNode)
    /\ WF_vars(EditorNode)

\* The runs of the whole application in which the caller answers MaxAnswers
\* times: every action of Next, every failure and every session race.
InitAnswers ==
    /\ state = FreshState
    /\ chat_sessions = EmptyDict
    /\ pc = "start"
    /\ route = "none"
    /\ awaiting_user_response = FALSE
    /\ current_graph_state = <<>>
    /\ resumes = MaxResumes - MaxAnswers
    /\ failed_runs = 0
    /\ races = 0
    /\ gen_call = NoGenCall
    /\ critic_call = NoCriticCall
    /\ invocation = NoInvocation
    /\ recursion_limit = GRAPH_RECURSION_LIMIT

SpecAnswers == InitAnswers /\ [][Next]_vars

\* ------------------------------------------------- decide_next_step alone

\* States decide_next_step can be called with: after at least one generator
\* execution, with any verdict of the critic merged in.
DecideStates ==
    { [FreshState EXCEPT !.drafts = <<"d1.1", "d2.1", "d3.1">>,
                         !.questions_for_user = q,
                         !.critiques = c,
                         !.drafts_to_redo = r,
                         !.iteration_count = n] :
        q \in QuestionLists, c \in {<<>>, <<"raw">>, <<"c2", "c1a", "c1b">>},
        r \in RedoLists,
        n \in 1..(MAX_ITERATIONS + MaxResumes) }

InitDecide ==
    /\ state \in DecideStates
    /\ chat_sessions = EmptyDict
    /\ pc = "decide"
    /\ route = "none"
    /\ awaiting_user_response = FALSE
    /\ current_graph_state = <<>>
    /\ resumes = 0
    /\ failed_runs = 0
    /\ races = 0
    /\ gen_call = NoGenCall
    /\ critic_call = NoCriticCall
    /\ invocation = NoInvocation
    /\ recursion_limit = GRAPH_RECURSION_LIMIT

NextDecide == DecideNextStep

SpecDecide == InitDecide /\ [][NextDecide]_vars

\* ------------------------------------------------- a low recursion_limit

\* graph_app.invoke when the graph has executed recursion_limit nodes and a
\* node is still due: the graph library raises its recursion error, which
\* leaves invoke and process_user_input.
RecursionLimitReached ==
    /\ pc \in {"generator", "critic", "editor"}
    /\ ~StepsLeft
    /\ pc' = "raised"
    /\ UNCHANGED << state, chat_sessions, route, awaiting_user_response,
                    current_graph_state, resumes, failed_runs, races,
                    gen_call, critic_call, invocation, recursion_limit >>

InitLimit ==
    /\ state = FreshState
    /\ chat_sessions = EmptyDict
    /\ pc = "start"
    /\ route = "none"
    /\ awaiting_user_response = FALSE
    /\ current_graph_state = <<>>
    /\ resumes = 0
    /\ failed_runs = 0
    /\ races = 0
    /\ gen_call = NoGenCall
    /\ critic_call = NoCriticCall
    /\ invocation = NoInvocation
    /\ recursion_limit = LowRecursionLimit

NextLimit ==
    \/ FreshRun
    \/ Resume
    \/ GeneratorNode
    \/ CriticNode
    \/ EditorNode
    \/ ProcessResult
    \/ RecursionLimitReached

SpecLimit == InitLimit /\ [][NextLimit]_vars

\* --------------------------------------------------------------- properties

\* The state decide_next_step was applied to, in SpecDecide.
Decided == pc # "decide" /\ route # "none"

\* The four rules, each with its complete condition.
FourRules(st) ==
    CASE st.questions_for_user # <<>> -> "ask_user"
      [] st.questions_for_user = <<>>
           /\ st.iteration_count >= MAX_ITERATIONS -> "editor"
      [] st.questions_for_user = <<>>
           /\ st.iteration_count < MAX_ITERATIONS
           /\ st.critiques # <<>> -> "generator"
      [] st.questions_for_user = <<>>
           /\ st.iteration_count < MAX_ITERATIONS
           /\ st.critiques = <<>> -> "editor"

\* C1: decide_next_step returns "ask_user" for every state whose
\* questions_for_user is non-empty, whatever iteration_count, critiques and
\* drafts_to_redo are, and the invocation ends there.
C1_QuestionsFirst ==
    (Decided /\ state.questions_for_user # <<>>)
        => (route = "ask_user" /\ pc = "END")

\* Questions together with a reached ceiling, critiques and a redo list.
C1_Witness ==
    /\ Decided
    /\ state.questions_for_user # <<>>
    /\ state.iteration_count >= MAX_ITERATIONS
    /\ state.critiques # <<>>
    /\ state.drafts_to_redo # <<>>
    /\ route = "ask_user"

\* C2: with no questions and iteration_count >= MAX_ITERATIONS,
\* decide_next_step returns "editor", critiques and redo list or not.
C2_CeilingOverridesRedo ==
    (Decided /\ state.questions_for_user = <<>>
             /\ state.iteration_count >= MAX_ITERATIONS)
        => (route = "editor" /\ pc = "editor")

\* The ceiling just reached, with critiques and a redo list outstanding.
C2_Witness ==
    /\ Decided
    /\ state.questions_for_user = <<>>
    /\ state.iteration_count = MAX_ITERATIONS
    /\ state.critiques # <<>>
    /\ state.drafts_to_redo # <<>>
    /\ route = "editor"

\* C3: with no questions and iteration_count < MAX_ITERATIONS,
\* decide_next_step returns "generator" when critiques is non-empty and
\* "editor" when it is empty; for every input its result is that of the four
\* rules taken in order.
C3_FourRules ==
    Decided =>
        /\ route = FourRules(state)
        /\ (state.questions_for_user = <<>>
              /\ state.iteration_count < MAX_ITERATIONS)
             => route = (IF state.critiques # <<>> THEN "generator"
                         ELSE "editor")

\* Below the ceiling, critiques without a redo list: back to the generator.
C3_Witness ==
    /\ Decided
    /\ state.questions_for_user = <<>>
    /\ state.iteration_count < MAX_ITERATIONS
    /\ state.critiques # <<>>
    /\ state.drafts_to_redo = <<>>
    /\ route = "generator"

\* The last stage that returned in the current invocation.
LastStage ==
    IF invocation.stages = <<>> THEN "none"
    ELSE invocation.stages[Len(invocation.stages)]

\* The graph input of a new request, before any stage ran.
FreshInitial ==
    pc = "generator" /\ invocation.fresh /\ invocation.stages = <<>>

\* The states a stage starts from or the caller gets back.
Boundary == pc \in {"generator", "critic", "editor", "END", "idle"}

\* C4 as stated: drafts has length 3 at every boundary, the initial state
\* of a new request included.
C4_DraftsLength3 == Boundary => Len(state.drafts) = 3

\* C4: drafts has length exactly 3, every slot a string, after each
\* generator, critic and editor stage, in the state a resumption starts from
\* and in the state returned to the caller; the initial state of a new
\* request has the empty list.
C4_DraftsLength3AfterGenerator ==
    /\ (Boundary /\ ~FreshInitial)
         => /\ Len(state.drafts) = 3
            /\ \A i \in 1..3 : state.drafts[i] # NoneStr
    /\ FreshInitial => state.drafts = <<>>

\* A selective redo of the second cycle returned its three drafts.
C4_Witness ==
    /\ pc = "critic"
    /\ state.iteration_count = 2
    /\ gen_call.redo = <<1>>
    /\ Len(state.drafts) = 3

\* C5 as stated: a generator_node execution that returns adds exactly 1 to
\* iteration_count, and no other step changes it: not the critic, the
\* decision, the editor, a suspension or a resumption.
C5_IterationCount ==
    [][ IF pc = "generator" /\ pc' = "critic"
        THEN state'.iteration_count = state.iteration_count + 1
        ELSE state'.iteration_count = state.iteration_count ]_vars

GenReturned == gen_call.outcome = "returned" /\ invocation.stages # <<>>

\* The last generator_node execution raised.
GenRaised == gen_call.outcome = "raised" /\ pc = "raised"

\* The sessions of the run in a store.
RunSessions(cs) == IF ChatUuid \in DOMAIN cs THEN cs[ChatUuid] ELSE EmptyDict

\* C7: a generator_node execution in which no call failed replaces the
\* drafts of the listed generators by the new answers and keeps the other
\* drafts; it leaves the sessions of the generators not listed as they were;
\* the session of a listed generator grows by exactly two entries, the
\* answer and the request, when it is the only one that runs or the run's
\* sessions existed before.
C7_SelectiveRedo ==
    (GenReturned /\ gen_call.failed1 = {})
        => LET chains == ChainsToRun(gen_call.redo)
               pre == RunSessions(gen_call.pre_sessions)
               post == RunSessions(chat_sessions)
           IN  /\ \A i \in 1..3 :
                    IF i \in chains
                    THEN state.drafts[i] = gen_call.results[i]
                    ELSE /\ i <= Len(gen_call.pre_drafts)
                         /\ state.drafts[i] = gen_call.pre_drafts[i]
               /\ \A g \in (DOMAIN pre \cup DOMAIN post) \ Range(gen_call.redo) :
                    /\ g \in DOMAIN pre
                    /\ g \in DOMAIN post
                    /\ post[g] = pre[g]
               /\ \A g \in chains :
                    (Cardinality(chains) = 1
                       \/ ChatUuid \in DOMAIN gen_call.pre_sessions)
                      => /\ g \in DOMAIN post
                         /\ post[g]
                              = SessionOf(gen_call.pre_sessions, ChatUuid, g)
                                \o << AssistantMsg(gen_call.results[g]),
                                      UserMsg >>

\* Generator 2 alone redid its draft: drafts 1 and 3 and their sessions stay.
C7_Witness ==
    /\ GenReturned
    /\ gen_call.failed1 = {}
    /\ ChainsToRun(gen_call.redo) = {2}
    /\ state.drafts = << gen_call.pre_drafts[1], gen_call.results[2],
                         gen_call.pre_drafts[3] >>
    /\ Len(SessionOf(chat_sessions, ChatUuid, 2))
         = Len(SessionOf(gen_call.pre_sessions, ChatUuid, 2)) + 2

\* The content of draft i before the execution ("" for a slot not set).
PreviousDraft(i) ==
    IF i <= Len(gen_call.pre_drafts) THEN gen_call.pre_drafts[i] ELSE ""

\* C8 as stated: when the call of generator 3 alone fails in a three-way
\* redo, generator_node returns with drafts 1 and 2 replaced, draft 3 as it
\* was and the session of generator 3 deleted.
C8_FailureIsolation ==
    ((GenReturned \/ GenRaised) /\ gen_call.failed1 = {3}
                                /\ gen_call.redo = <<1, 2, 3>>)
        => /\ GenReturned
           /\ state.drafts[1] = gen_call.results[1]
           /\ state.drafts[2] = gen_call.results[2]
           /\ state.drafts[3] = PreviousDraft(3)
           /\ 3 \notin DOMAIN RunSessions(chat_sessions)

\* C8: when a call fails, generator_node deletes every session of the run
\* and repeats all the calls of the redo list once.  When the repeated
\* calls all return, every listed draft is the answer of its repeated call,
\* the session of every listed generator holds that answer and the request
\* only (or nothing, dropped by the interleaving of LostSets), and the
\* other generators have no session; when a repeated call fails,
\* generator_node raises and the drafts stay as they were.
C8_RetryAll ==
    /\ (GenReturned /\ gen_call.failed1 # {})
         => LET chains == ChainsToRun(gen_call.redo)
                post == RunSessions(chat_sessions)
            IN  /\ \A g \in chains :
                     /\ state.drafts[g] = gen_call.results[g]
                     /\ state.drafts[g] # CallError
                     /\ g \in DOMAIN post
                     /\ post[g] \in { << AssistantMsg(gen_call.results[g]),
                                         UserMsg >>,
                                      <<>> }
                /\ \A g \in GeneratorNums \ chains : g \notin DOMAIN post
    /\ (GenRaised /\ gen_call.failed1 # {})
         => state.drafts = gen_call.pre_drafts

\* The call of generator 3 alone failed in a three-way redo of the second
\* cycle, and the repeated calls returned.
C8_Witness ==
    /\ GenReturned
    /\ gen_call.failed1 = {3}
    /\ gen_call.redo = <<1, 2, 3>>
    /\ state.iteration_count = 2
    /\ state.drafts = <<"d1.2", "d2.2", "d3.2">>
    /\ PreviousDraft(3) = "d3.1"

\* A verdict that approves: decoded, no critiques, no questions.
Approves(v) == v.critiques = <<>> /\ v.questions = <<>>

\* A verdict that asks generator 1 alone to redo its draft.
RedoOne(v) == v.critiques # <<>> /\ v.questions = <<>> /\ v.redo = <<1>>

IsPrefix(s, t) == Len(s) <= Len(t) /\ s = SubSeq(t, 1, Len(s))

\* C9: in the invocation of a new request whose first verdict approves,
\* the stages are one generator, one critic and the editor, in that order
\* and nothing else; the state returned has final_summary set and
\* iteration_count 1.
C9_ImmediateApproval ==
    (invocation.fresh /\ invocation.verdicts # <<>>
                      /\ Approves(invocation.verdicts[1]))
        => /\ IsPrefix(invocation.stages, <<"generator", "critic", "editor">>)
           /\ Len(invocation.verdicts) = 1
           /\ state.iteration_count = 1
           /\ pc \in {"editor", "raised", "END", "idle"}
           /\ pc \in {"END", "idle"}
                => /\ invocation.stages = <<"generator", "critic", "editor">>
                   /\ state.final_summary = SummaryText
                   /\ TruthyStr(state.final_summary)

\* The invocation returned to the caller after an immediate approval.
C9_Witness ==
    /\ pc = "idle"
    /\ invocation.fresh
    /\ invocation.verdicts # <<>>
    /\ Approves(invocation.verdicts[1])
    /\ invocation.stages = <<"generator", "critic", "editor">>
    /\ state.final_summary = SummaryText

\* C10 as stated: in the invocation of a new request in which no call
\* fails and the verdicts are redo generator 1, redo generator 1, approve,
\* the returned state has iteration_count 3, the session of generator 1
\* holds 6 entries and those of generators 2 and 3 hold 2 each.
C10_RedoOneTwice ==
    (pc \in {"END", "idle"} /\ invocation.fresh /\ failed_runs = 0
        /\ Len(invocation.verdicts) = 3
        /\ RedoOne(invocation.verdicts[1])
        /\ RedoOne(invocation.verdicts[2])
        /\ Approves(invocation.verdicts[3]))
        => /\ state.iteration_count = 3
           /\ Len(SessionOf(chat_sessions, ChatUuid, 1)) = 6
           /\ Len(SessionOf(chat_sessions, ChatUuid, 2)) = 2
           /\ Len(SessionOf(chat_sessions, ChatUuid, 3)) = 2

\* The first generator_node execution of a continuation has returned.
ResumedGeneratorReturned ==
    /\ ~invocation.fresh
    /\ resumes > 0
    /\ current_graph_state # <<>>
    /\ invocation.stages # <<>>
    /\ Len(invocation.stages) = 1

\* A continuation stands before its first stage.
ResumedInitial ==
    /\ ~invocation.fresh
    /\ resumes > 0
    /\ pc = "generator"
    /\ invocation.stages = <<>>

\* C11: a continuation starts the generator from the saved state with the
\* prompt as user_response; when that generator_node execution has returned,
\* user_response is None and iteration_count is the saved value plus 1, and
\* topic, chat_uuid and the drafts the generator started from are the saved
\* ones.
C11_ResumeRoundTrip ==
    /\ ResumedInitial
         => /\ current_graph_state # <<>>
            /\ state = current_graph_state[1]
            /\ state.user_response \in Prompts
    /\ ResumedGeneratorReturned
         => LET saved == current_graph_state[1]
            IN  /\ state.user_response = NoneStr
                /\ state.iteration_count = saved.iteration_count + 1
                /\ state.iteration_count > 0
                /\ state.topic = saved.topic
                /\ state.file_content = saved.file_content
                /\ state.chat_uuid = saved.chat_uuid
                /\ gen_call.pre_drafts = saved.drafts

\* A run suspended at the ceiling was resumed and its generator returned.
C11_Witness ==
    /\ ResumedGeneratorReturned
    /\ pc = "critic"
    /\ current_graph_state[1].iteration_count = MAX_ITERATIONS
    /\ current_graph_state[1].user_response \in Prompts
    /\ state.user_response = NoneStr
    /\ state.iteration_count = MAX_ITERATIONS + 1

\* The invocation returned a state (process_user_input may have handled it).
Returned == pc \in {"END", "idle"}

\* C12: questions_for_user non-empty and final_summary set never hold
\* together; a returned state is either suspended (it comes from the critic,
\* with questions and no final_summary) or completed (it comes from the
\* editor, with final_summary and no questions); final_summary is set only
\* in states that come from editor_node; the state saved for a
\* continuation has questions and no final_summary.
C12_ReturnedStateKinds ==
    /\ ~(state.questions_for_user # <<>> /\ TruthyStr(state.final_summary))
    /\ Returned
         => \/ /\ LastStage = "critic"
               /\ route = "ask_user"
               /\ state.questions_for_user # <<>>
               /\ state.final_summary = NoneStr
            \/ /\ LastStage = "editor"
               /\ route = "editor"
               /\ state.questions_for_user = <<>>
               /\ TruthyStr(state.final_summary)
    /\ state.final_summary # NoneStr
         => (LastStage = "editor" /\ Returned)
    /\ current_graph_state # <<>>
         => /\ current_graph_state[1].questions_for_user # <<>>
            /\ current_graph_state[1].final_summary = NoneStr

\* A run that was suspended and resumed returned its final summary.
C12_Witness ==
    /\ pc = "idle"
    /\ resumes > 0
    /\ LastStage = "editor"
    /\ state.questions_for_user = <<>>
    /\ state.final_summary = SummaryText
    /\ ~awaiting_user_response

\* generator_node executions that returned in the current invocation.
GeneratorRuns ==
    Len(SelectSeq(invocation.stages, LAMBDA x : x = "generator"))

\* A node of the graph is due.
InProgress == pc \in {"generator", "critic", "editor"}

\* The invocation is over: it returned a state or raised.
Ended == pc \in {"END", "idle", "raised"}

\* C13: an invocation runs at most 2 * MAX_ITERATIONS + 1 nodes, fewer than
\* the recursion limit; the invocation of a new request runs generator_node
\* at most MAX_ITERATIONS times and iteration_count counts these runs; a
\* verdict with critiques and no questions at the ceiling is routed to the
\* editor, and what editor_node returns is the final_summary of the returned
\* state; every invocation ends, by returning that state or a suspended one
\* or by raising.
C13_BoundedIteration ==
    /\ [](/\ Len(invocation.stages) <= 2 * MAX_ITERATIONS + 1
          /\ InProgress => StepsLeft
          /\ invocation.fresh
               => /\ GeneratorRuns <= MAX_ITERATIONS
                  /\ state.iteration_count = GeneratorRuns
          /\ (LastStage = "critic" /\ state.questions_for_user = <<>>
                /\ state.critiques # <<>>
                /\ state.iteration_count >= MAX_ITERATIONS)
               => (route = "editor" /\ pc \in {"editor", "raised"})
          /\ LastStage = "editor"
               => (Returned /\ state.final_summary = SummaryText))
    /\ (InProgress ~> Ended)

\* The invocation of a new request ran the generator MAX_ITERATIONS times,
\* the last verdict still had critiques, and the editor's text was returned.
C13_Witness ==
    /\ pc = "idle"
    /\ invocation.fresh
    /\ GeneratorRuns = MAX_ITERATIONS
    /\ Len(invocation.verdicts) = MAX_ITERATIONS
    /\ invocation.verdicts[MAX_ITERATIONS].critiques # <<>>
    /\ LastStage = "editor"
    /\ state.final_summary = SummaryText

\* C14 as stated: when a generator call fails, generator_node still
\* returns, with the draft of the failed generator as it was, also when the
\* repeated call fails again.
C14_NeverEscalated ==
    (gen_call.failed1 # {}
       /\ (GenReturned \/ (GenRaised /\ gen_call.failed2 # {})))
        => /\ GenReturned
           /\ \A g \in gen_call.failed1 : state.drafts[g] = PreviousDraft(g)

\* C14: a failed generator call is answered by one repetition of all the
\* calls.  When generator_node returns after it, the draft of every
\* generator whose call had failed is the new answer of its repeated call,
\* not the draft it had; when a repeated call fails, generator_node raises:
\* it returns no update (drafts and redo list stay, no generator stage is
\* recorded) and the invocation ends without a returned state.
C14_RetryThenEscalate ==
    /\ (GenReturned /\ gen_call.failed1 # {})
         => /\ gen_call.failed2 = {}
            /\ \A g \in gen_call.failed1 :
                 /\ g \in DOMAIN gen_call.results
                 /\ state.drafts[g] = gen_call.results[g]
                 /\ state.drafts[g] # PreviousDraft(g)
    /\ (GenRaised /\ gen_call.failed2 # {})
         => /\ gen_call.failed1 # {}
            /\ ~Returned
            /\ LastStage # "generator"
            /\ state.drafts = gen_call.pre_drafts
            /\ invocation.fresh => state.iteration_count = GeneratorRuns

\* The call of generator 3 failed in both attempts of a second cycle.
C14_Witness ==
    /\ GenRaised
    /\ gen_call.failed1 = {3}
    /\ gen_call.failed2 = {3}
    /\ state.iteration_count = 1
    /\ state.drafts = <<"d1.1", "d2.1", "d3.1">>

\* The critic's model call raised in the current invocation.
CriticCallRaised == critic_call.outcome = "call_raised"

\* The state an invocation starts from.
InvocationInput ==
    IF invocation.fresh \/ current_graph_state = <<>> THEN FreshState
    ELSE current_graph_state[1]

\* C15: when the critic's model call raises, critic_node raises and the
\* invocation ends without a returned state; the state keeps what
\* generator_node left (drafts_to_redo empty, not [1, 2, 3]), no verdict is
\* recorded for the cycle, and critiques, critiques_by_generator and
\* questions_for_user are those of the previous verdict of the invocation,
\* or those the invocation started with.
C15_CriticCallPropagates ==
    CriticCallRaised
        => /\ pc = "raised"
           /\ LastStage = "generator"
           /\ state.drafts_to_redo = <<>>
           /\ state.final_summary = NoneStr
           /\ Len(invocation.verdicts) = GeneratorRuns - 1
           /\ LET n == Len(invocation.verdicts)
                  before == IF n = 0
                            THEN [critiques |-> InvocationInput.critiques,
                                  questions |->
                                      InvocationInput.questions_for_user]
                            ELSE [critiques |->
                                      invocation.verdicts[n].critiques,
                                  questions |->
                                      invocation.verdicts[n].questions]
              IN  /\ state.critiques = before.critiques
                  /\ state.questions_for_user = before.questions
                  /\ state.critiques # << CallError >>

\* The critic's call raised in the second cycle, after one verdict.
C15_Witness ==
    /\ CriticCallRaised
    /\ state.iteration_count = 2
    /\ Len(invocation.verdicts) = 1
    /\ state.critiques = invocation.verdicts[1].critiques

\* critic_node handled an answer that is not the expected structure: text
\* json.loads rejects, an object without "critiques_by_generator", or an
\* object whose keys int() rejects.
NonconformingAnswer ==
    /\ critic_call.outcome \in {"returned", "key_raised"}
    /\ \/ critic_call.kind = "text"
       \/ ~critic_call.has_cbg
       \/ critic_call.outcome = "key_raised"
    /\ \/ LastStage = "critic"
       \/ critic_call.outcome = "key_raised" /\ pc = "raised"

\* C16: below the ceiling, an answer of the critic that is not the expected
\* structure is followed by the route to the generator with
\* drafts_to_redo = [1, 2, 3], and never by the route to the editor.
C16_MalformedNeverApproval ==
    (NonconformingAnswer /\ state.iteration_count < MAX_ITERATIONS)
        => /\ pc = "generator"
           /\ route = "generator"
           /\ state.drafts_to_redo = <<1, 2, 3>>

\* log_agent_response raised while generator_node recorded a new draft: the
\* calls had all returned, and the node raised.
GeneratorLogFailed ==
    /\ gen_call.outcome = "raised"
    /\ gen_call.failed2 = {}
    /\ LoggedIndices(gen_call.redo, gen_call.results) # {}

\* log_agent_response raised while critic_node recorded the answer.
CriticLogFailed == critic_call.outcome = "log_raised"

\* C17: an exception of log_agent_response does not fail the invocation:
\* the node that called it has returned its update (it is the last stage
\* recorded) and the graph is at the next node.
C17_LogFailureNeverFails ==
    /\ GeneratorLogFailed => (pc = "critic" /\ LastStage = "generator")
    /\ CriticLogFailed => (pc # "raised" /\ LastStage = "critic")

\* The invocation ended by the graph's recursion error: recursion_limit
\* nodes were executed and another node was due.
LimitExhausted ==
    /\ pc = "raised"
    /\ Len(invocation.stages) = recursion_limit

\* C18: an invocation never executes more nodes than recursion_limit,
\* whatever MAX_ITERATIONS is; when the limit is exhausted the invocation
\* ends by an exception: no state is returned (neither a suspension nor a
\* completion), the editor has not run and final_summary is None.
C18_StepCeiling ==
    /\ Len(invocation.stages) <= recursion_limit
    /\ LimitExhausted
          => /\ ~Returned
             /\ state.final_summary = NoneStr
             /\ \A i \in DOMAIN invocation.stages :
                   invocation.stages[i] # "editor"

\* The limit was exhausted below the iteration ceiling: two cycles ran, the
\* critic asked for a third and the generator was due.
C18_Witness ==
    /\ LimitExhausted
    /\ state.iteration_count = 2
    /\ state.iteration_count < MAX_ITERATIONS
    /\ route = "generator"

\* C19 as stated: generator_node entered with an empty drafts_to_redo works
\* with [1, 2, 3] in the first iteration only; in a later iteration it runs
\* no chain, returns, and the drafts are the ones it was entered with.
C19_EmptyRedoFirstCycleOnly ==
    [][ (pc = "generator" /\ state.drafts_to_redo = <<>>)
          => IF state.iteration_count = 0
             THEN gen_call'.redo = <<1, 2, 3>>
             ELSE /\ ChainsToRun(gen_call'.redo) = {}
                  /\ pc' = "critic"
                  /\ state'.drafts = state.drafts ]_vars

\* C19, amended: generator_node entered with an empty drafts_to_redo works
\* with [1, 2, 3] in every iteration; when it returns, all three drafts are
\* the answers of this iteration's calls.
C19_EmptyRedoEveryCycle ==
    [][ (pc = "generator" /\ state.drafts_to_redo = <<>>)
          => /\ gen_call'.redo = <<1, 2, 3>>
             /\ ChainsToRun(gen_call'.redo) = {1, 2, 3}
             /\ pc' = "critic"
                   => state'.drafts
                        = [g \in 1..3 |->
                             DraftText(g, state.iteration_count + 1)] ]_vars

\* generator_node returned from a second iteration that the critic's verdict
\* had sent it to with critiques and an empty redo list.
C19_Witness ==
    /\ GenReturned
    /\ LastStage = "generator"
    /\ state.iteration_count = 2
    /\ Len(invocation.verdicts) = 1
    /\ invocation.verdicts[1].redo = <<>>
    /\ invocation.verdicts[1].critiques # <<>>
    /\ gen_call.redo = <<1, 2, 3>>
    /\ state.drafts = <<"d1.2", "d2.2", "d3.2">>

\* critic_node returned from its try block: json.loads accepted the answer
\* and every key was converted.
CriticDecoded ==
    /\ LastStage = "critic"
    /\ critic_call.outcome = "returned"
    /\ critic_call.kind = "json"

\* The generators the returned critiques_by_generator has a critique for.
Criticised ==
    {g \in DOMAIN state.critiques_by_generator :
        state.critiques_by_generator[g] # <<>>}

\* C20 as stated: after critic_node decoded an answer without a
\* "drafts_to_redo" list, drafts_to_redo is the set of generators with at
\* least one critique; with the list, it is the decoded list.
C20_RedoDerivedWhenAbsent ==
    CriticDecoded
        => IF critic_call.has_redo
           THEN state.drafts_to_redo = critic_call.redo
           ELSE Range(state.drafts_to_redo) = Criticised

\* C20, amended: after critic_node decoded an answer without a
\* "drafts_to_redo" list, drafts_to_redo is the empty list, whatever the
\* critiques; with the list, it is the decoded list as it stands, indices
\* that name no generator included.
C20_RedoEmptyWhenAbsent ==
    CriticDecoded
        => IF critic_call.has_redo
           THEN state.drafts_to_redo = critic_call.redo
           ELSE state.drafts_to_redo = <<>>

\* The critic's answer had critiques for generators 1 and 2 and no
\* "drafts_to_redo" list; the run goes on to the generator.
C20_Witness ==
    /\ CriticDecoded
    /\ ~critic_call.has_redo
    /\ Criticised = {1, 2}
    /\ state.drafts_to_redo = <<>>
    /\ route = "generator"

\* The graph is about to run generator_node again within an invocation:
\* the conditional edge after critic_node chose "generator".
ReEntry ==
    /\ pc = "generator"
    /\ LastStage = "critic"
    /\ route = "generator"

\* C21 as stated: at every re-entry into generator_node within an
\* invocation, drafts_to_redo is non-empty.
C21_ReEntryWithRedoSet == ReEntry => state.drafts_to_redo # <<>>

\* C21, amended: at every re-entry into generator_node within an
\* invocation the critic's verdict holds critiques and no questions, the
\* ceiling is not reached, and drafts_to_redo is the list critic_node
\* returned, which may be empty.
C21_ReEntryWithCritiques ==
    ReEntry
        => /\ state.critiques # <<>>
           /\ state.questions_for_user = <<>>
           /\ state.iteration_count < MAX_ITERATIONS
           /\ critic_call.outcome = "returned"
           /\ state.drafts_to_redo
                 = (IF critic_call.kind = "text" THEN <<1, 2, 3>>
                    ELSE IF critic_call.has_redo THEN critic_call.redo
                    ELSE <<>>)

\* A re-entry with critiques and an empty drafts_to_redo.
C21_Witness ==
    /\ ReEntry
    /\ state.critiques # <<>>
    /\ state.drafts_to_redo = <<>>
    /\ state.iteration_count = 1

\* critic_node returned a verdict without questions below the ceiling, and
\* the conditional edge has chosen the route.
VerdictBelowCeiling ==
    /\ LastStage = "critic"
    /\ state.questions_for_user = <<>>
    /\ state.iteration_count < MAX_ITERATIONS

\* C22 as stated: such a verdict is routed to the editor exactly when both
\* critiques and drafts_to_redo are empty; with a non-empty drafts_to_redo
\* and no critiques it is routed to the generator.
C22_ApprovalNeedsEmptyRedo ==
    VerdictBelowCeiling
        => (route = "editor"
              <=> (state.critiques = <<>> /\ state.drafts_to_redo = <<>>))

\* C22, amended: such a verdict is routed to the editor exactly when
\* critiques is empty, whatever drafts_to_redo holds, and to the generator
\* otherwise.
C22_ApprovalByCritiquesAlone ==
    VerdictBelowCeiling
        => /\ route = "editor" <=> state.critiques = <<>>
           /\ route = "generator" <=> state.critiques # <<>>
           /\ pc \in {route, "raised"}

\* A verdict that lists draft 1 and has no critiques went to the editor.
C22_Witness ==
    /\ VerdictBelowCeiling
    /\ state.critiques = <<>>
    /\ state.drafts_to_redo = <<1>>
    /\ route = "editor"
    /\ pc = "editor"

\* generator_node has just run: it returned and no later stage ran, or it
\* raised.  The state's critiques_by_generator is then the one its chains
\* read.
GenJustRan == (GenReturned /\ LastStage = "generator") \/ GenRaised

\* The chains of the last RunnableParallel run that found a non-empty
\* session (revision calls), and those that found an empty one.
RevisionCalls ==
    IF gen_call.failed1 # {} THEN {}
    ELSE {g \in DOMAIN gen_call.inputs :
             SessionOf(gen_call.pre_sessions, ChatUuid, g) # <<>>}

FirstCalls == DOMAIN gen_call.inputs \ RevisionCalls

\* The request of the call of generator g: the last message passed to the
\* model.
RequestOf(g) == gen_call.inputs[g][Len(gen_call.inputs[g])]

\* The critiques text of a revision request for generator g.
CritiquesText(g) ==
    IF CritiquesOf(state, g) # <<>> THEN Join(CritiquesOf(state, g))
    ELSE NoCritiques

C24_RevisionInsideSession ==
    GenJustRan
        => /\ \A g \in RevisionCalls :
                 LET session == SessionOf(gen_call.pre_sessions, ChatUuid, g)
                 IN  /\ Len(gen_call.inputs[g]) = Len(session) + 1
                     /\ SubSeq(gen_call.inputs[g], 1, Len(session)) = session
           /\ \A g \in FirstCalls : Len(gen_call.inputs[g]) = 1

\* The last generator_node execution made one RunnableParallel run in which
\* every call returned (the node itself returned, or log_agent_response
\* raised after the sessions were written).
CallsSucceeded ==
    /\ gen_call.outcome \in {"returned", "raised"}
    /\ gen_call.failed1 = {}
    /\ gen_call.failed2 = {}

\* The threads of that run could not drop a session: the run's entry
\* existed before, or a single chain ran.
NoSessionRace ==
    \/ ChatUuid \in DOMAIN gen_call.pre_sessions
    \/ Cardinality(DOMAIN gen_call.inputs) <= 1

\* A session of n calls in the order answer, request: assistant messages at
\* the odd positions, the fixed request text at the even ones.
AnswerThenRequest(session) ==
    /\ Len(session) % 2 = 0
    /\ \A i \in DOMAIN session :
          IF i % 2 = 1 THEN session[i].role = "assistant"
          ELSE session[i].role = "user"

CallFailed == gen_call.outcome \in {"returned", "raised"} /\ gen_call.failed1 # {}

\* C26 as stated: after a call failure, the sessions of the generators
\* whose call did not fail keep the content they had: a generator that was
\* not called keeps its session as it was, one whose call returned has it
\* extended.
C26_OnlyFailedSessionDeleted ==
    CallFailed
        => LET pre == RunSessions(gen_call.pre_sessions)
               post == RunSessions(chat_sessions)
           IN  \A g \in DOMAIN pre \ gen_call.failed1 :
                  /\ g \in DOMAIN post
                  /\ IsPrefix(pre[g], post[g])
                  /\ g \notin DOMAIN gen_call.inputs => post[g] = pre[g]

\* C26, amended: after a call failure every session of the run is deleted,
\* those of the generators that were not called included; the store then
\* holds sessions for indices of the redo list only, created by the
\* repeated calls, with at most the new answer and the request text.
C26_WholeRunDeleted ==
    CallFailed
        => LET pre == RunSessions(gen_call.pre_sessions)
               post == RunSessions(chat_sessions)
           IN  /\ \A g \in DOMAIN post :
                     /\ g \in Range(gen_call.redo)
                     /\ Len(post[g]) <= 2
                     /\ post[g] # <<>> => post[g][1].role = "assistant"
                     /\ Len(post[g]) = 2 => post[g][2].role = "user"
               /\ \A g \in DOMAIN pre \ Range(gen_call.redo) :
                     g \notin DOMAIN post
               /\ \A g \in DOMAIN gen_call.inputs :
                     Len(gen_call.inputs[g]) = 1
                       /\ RequestOf(g).file_content = FreshState.file_content

\* The call of generator 1 failed when it alone was asked to redo its
\* draft: the sessions generators 2 and 3 had are gone.
C26_Witness ==
    /\ CallFailed
    /\ gen_call.redo = <<1>>
    /\ gen_call.failed1 = {1}
    /\ SessionOf(gen_call.pre_sessions, ChatUuid, 2) # <<>>
    /\ SessionOf(gen_call.pre_sessions, ChatUuid, 3) # <<>>
    /\ DOMAIN RunSessions(chat_sessions) = {1}

\* generator_node ran: it returned or raised.
GenExecuted == gen_call.outcome \in {"returned", "raised"}

\* C27 as stated: a generator_node execution issues at most one model call
\* for each index, also when a call fails.
C27_NoRetry ==
    GenExecuted => \A g \in DOMAIN gen_call.calls : gen_call.calls[g] <= 1

\* C27, amended: a generator_node execution issues one model call for each
\* generator of the redo list and for no other; when a call fails it issues
\* a second call for every one of them, those whose first call returned
\* included, and never a third; when it returns after a failure, every
\* draft of the list is the answer of a second call.
C27_OneRetryOfAll ==
    GenExecuted
        => /\ DOMAIN gen_call.calls = ChainsToRun(gen_call.redo)
           /\ \A g \in DOMAIN gen_call.calls :
                 gen_call.calls[g] = (IF gen_call.failed1 = {} THEN 1 ELSE 2)
           /\ gen_call.failed1 = {} => gen_call.failed2 = {}
           /\ (gen_call.failed1 # {} /\ gen_call.failed2 # {})
                 => gen_call.outcome = "raised"
           /\ (gen_call.failed1 # {} /\ gen_call.outcome = "returned")
                 => /\ gen_call.failed2 = {}
                    /\ DOMAIN gen_call.results = DOMAIN gen_call.calls

\* The call of generator 3 failed in a three-way redo: generator 1, whose
\* first call returned, was called a second time, and the node returned.
C27_Witness ==
    /\ GenReturned
    /\ gen_call.redo = <<1, 2, 3>>
    /\ gen_call.failed1 = {3}
    /\ gen_call.calls[1] = 2
    /\ gen_call.calls[3] = 2

\* The records of the last generator_node execution are in ascending order
\* of generator number, one at most for each.
AscendingRecords ==
    \A i, j \in DOMAIN gen_call.logged :
       i < j => gen_call.logged[i] < gen_call.logged[j]

\* C28 as stated: a generator_node execution emits exactly one record for
\* each member of the redo list it works with, whether the call of that
\* index returned or failed, in ascending order.
C28_OneRecordPerIndex ==
    GenExecuted
        => /\ Range(gen_call.logged) = Range(gen_call.redo)
           /\ AscendingRecords

\* C28, amended: a generator_node execution that returns has emitted
\* exactly one record for each generator of the redo list, all of whose
\* calls returned, in ascending order, and none for an index that names no
\* generator; an execution that raises because a repeated call failed has
\* emitted none, so a failed call has no record; one that raises in
\* log_agent_response has emitted the records before the failing one.
C28_RecordsForNewDrafts ==
    GenExecuted
        => LET all == SelectSeq(<<1, 2, 3>>,
                                LAMBDA i : i \in Range(gen_call.redo))
           IN  /\ AscendingRecords
               /\ gen_call.outcome = "returned"
                     => /\ gen_call.logged = all
                        /\ Range(gen_call.logged) \subseteq GeneratorNums
               /\ gen_call.failed2 # {} => gen_call.logged = <<>>
               /\ (gen_call.outcome = "raised" /\ gen_call.failed2 = {})
                     => /\ IsPrefix(gen_call.logged, all)
                        /\ Len(gen_call.logged) < Len(all)

\* Generator 3's first call failed in a three-way redo and the repeated
\* calls returned: three records, in the order 1, 2, 3, none for the
\* failure.
C28_Witness ==
    /\ GenReturned
    /\ gen_call.failed1 = {3}
    /\ gen_call.redo = <<1, 2, 3>>
    /\ gen_call.logged = <<1, 2, 3>>

\* ---------------------------------------------------------------------- C29

\* critic_node returned its update in the current invocation, from the try
\* block or from the except branch, and no stage ran since.
CriticReturned ==
    /\ LastStage = "critic"
    /\ critic_call.outcome = "returned"

\* The critique lists of a critiques_by_generator dict joined by ascending
\* generator number.
AscendingConcat(d) ==
    LET at(g) == IF g \in DOMAIN d THEN d[g] ELSE <<>>
    IN  at(1) \o at(2) \o at(3)

\* The critique lists of a critiques_by_generator dict joined in the order
\* in which the keys stand in the critic's answer.
RECURSIVE KeyOrderConcat(_, _)
KeyOrderConcat(pairs, d) ==
    IF pairs = <<>> THEN <<>>
    ELSE d[IntOfKey(Head(pairs)[1])] \o KeyOrderConcat(Tail(pairs), d)

\* C29 as stated: after every execution of critic_node, decoded answer or
\* not, critiques is the concatenation of the lists of
\* critiques_by_generator in ascending generator order.
C29_FlatIsAscendingConcat ==
    CriticReturned
        => state.critiques = AscendingConcat(state.critiques_by_generator)

\* C29, amended: after critic_node decoded an answer, critiques is the
\* concatenation of the lists of critiques_by_generator in the order of the
\* answer's keys; after an answer json.loads rejected, critiques holds the
\* raw answer once while critiques_by_generator holds it for each of the
\* three generators.  Either way critiques is non-empty whenever
\* critiques_by_generator holds a critique.
C29_FlatFollowsAnswerOrder ==
    CriticReturned
        => /\ critic_call.kind = "json"
                => state.critiques
                     = KeyOrderConcat(critic_call.cbg,
                                      state.critiques_by_generator)
           /\ critic_call.kind = "text"
                => /\ state.critiques = << critic_call.content >>
                   /\ state.critiques_by_generator
                        = [g \in {1, 2, 3} |-> << critic_call.content >>]
           /\ Criticised # {} => state.critiques # <<>>

\* The critic's answer listed generator 2 before generator 1, and critiques
\* starts with the critique of generator 2.
C29_Witness ==
    /\ CriticReturned
    /\ critic_call.kind = "json"
    /\ critic_call.cbg # <<>>
    /\ critic_call.cbg[1][1] = "2"
    /\ state.critiques = <<"c2", "c1a", "c1b">>
    /\ state.critiques_by_generator[1] = <<"c1a", "c1b">>

\* ---------------------------------------------------------------------- C30

\* The indices of the last execution's redo list that name no generator.
InvalidRedo == Range(gen_call.redo) \ GeneratorNums

\* The last generator_node execution worked with a list that holds such an
\* index.
SkippedIndex == GenExecuted /\ InvalidRedo # {}

\* What C30 and its amendment share: no model call for an index that names
\* no generator; an execution that returns has changed the drafts of the
\* generators of the list and no other; an execution whose calls returned
\* raises only out of log_agent_response.
SkipOnly ==
    /\ DOMAIN gen_call.calls = Range(gen_call.redo) \cap GeneratorNums
    /\ DOMAIN gen_call.inputs = DOMAIN gen_call.calls
    /\ (GenReturned /\ LastStage = "generator")
          => /\ Len(state.drafts) = 3
             /\ \A g \in GeneratorNums :
                   IF g \in Range(gen_call.redo)
                   THEN state.drafts[g] = gen_call.results[g]
                   ELSE state.drafts[g] = gen_call.pre_drafts[g]
    /\ (gen_call.outcome = "raised" /\ gen_call.failed2 = {})
          => Len(gen_call.logged) < Cardinality(DOMAIN gen_call.calls)

\* C30 as stated: for a redo index outside 1..3 generator_node issues no
\* model call, writes a warning to the step log, changes the drafts through
\* the valid indices only and does not abort.
C30_SkipWithWarning ==
    SkippedIndex
        => /\ SkipOnly
           /\ gen_call.outcome = "returned"
                 => InvalidRedo \subseteq Range(gen_call.logged)

\* C30, amended: for a redo index outside 1..3 generator_node issues no
\* model call, writes nothing to the step log, neither a record nor a
\* warning, changes the drafts through the valid indices only and does not
\* abort.
C30_SilentSkip ==
    SkippedIndex
        => /\ SkipOnly
           /\ Range(gen_call.logged) \cap InvalidRedo = {}

\* The critic listed 2 and 4: generator 2 alone was called and logged, its
\* draft is new, the drafts of generators 1 and 3 are the earlier ones, and
\* the run goes on to the critic.
C30_Witness ==
    /\ GenReturned
    /\ LastStage = "generator"
    /\ pc = "critic"
    /\ gen_call.redo = <<2, 4>>
    /\ DOMAIN gen_call.calls = {2}
    /\ gen_call.logged = <<2>>
    /\ state.drafts[2] # gen_call.pre_drafts[2]
    /\ state.drafts[1] = gen_call.pre_drafts[1]

\* ---------------------------------------------------------------------- C31

\* generator_node has returned as the first stage of a resumed invocation.
ResumedFirstGenerator ==
    /\ ~invocation.fresh
    /\ invocation.stages = << "generator" >>
    /\ gen_call.outcome = "returned"

\* A request of the last generator_node execution carried the caller's
\* answer.
UserResponseDelivered ==
    \E g \in DOMAIN gen_call.inputs :
       RequestOf(g).user_response \in Prompts

\* C31: the first generator_node execution after a resumption puts the
\* caller's answer into a generator request and clears user_response.
C31_UserResponseConsumedOnce ==
    ResumedFirstGenerator
        => /\ UserResponseDelivered
           /\ state.user_response = NoneStr

\* ---------------------------------------------------------------------- C32

\* The stages of the current invocation alternate: a generator execution is
\* followed by a critic execution and by nothing else, and a critic
\* execution follows a generator execution.
GeneratorThenCritic ==
    LET s == invocation.stages
    IN  \A i \in DOMAIN s :
           /\ (s[i] = "generator" /\ i < Len(s)) => s[i + 1] = "critic"
           /\ s[i] = "critic" => (i > 1 /\ s[i - 1] = "generator")

\* The editor has run at most once in the current invocation, as its last
\* stage and after a critic execution.
EditorOnceAndLast ==
    LET s == invocation.stages
    IN  \A i \in DOMAIN s :
           s[i] = "editor" => (i = Len(s) /\ i > 1 /\ s[i - 1] = "critic")

\* When the critic is due, every call of the generator execution before it
\* has returned: the execution holds an answer for each chain it started,
\* and the drafts of the state are these answers.
FanIn ==
    pc = "critic"
        => /\ LastStage = "generator"
           /\ gen_call.outcome = "returned"
           /\ DOMAIN gen_call.results = ChainsToRun(gen_call.redo)
           /\ \A g \in ChainsToRun(gen_call.redo) :
                 state.drafts[g] = gen_call.results[g]

\* C32: the stages of a run execute one after the other: the critic starts
\* only after every generator call of the cycle has returned, a generator
\* execution is followed by one critic execution before any other stage,
\* and the editor runs at most once in an invocation, as its last stage.
C32_StagesSequential ==
    /\ FanIn
    /\ GeneratorThenCritic
    /\ EditorOnceAndLast
    /\ pc = "editor" => LastStage = "critic"
    /\ (invocation.stages # <<>> /\ LastStage = "editor") => pc \in {"END", "idle"}

\* Two cycles with a selective redo, then the editor: five stages in order.
C32_Witness ==
    /\ invocation.stages
         = << "generator", "critic", "generator", "critic", "editor" >>
    /\ gen_call.redo = <<2, 4>>
    /\ pc = "END"

\* ---------------------------------------------------------------------- C33

\* The session of generator g holds the answer of its call in the last
\* generator_node execution.
HoldsOwnResponse(g) ==
    LET session == SessionOf(chat_sessions, ChatUuid, g)
    IN  \E i \in DOMAIN session :
           session[i] = AssistantMsg(gen_call.results[g])

\* C33: after a generator_node execution in which the three calls returned,
\* whatever the interleaving of the threads, each of the three sessions
\* holds the answer of its own call: none was dropped when another thread
\* created the entry of the run.
C33_NoLostSession ==
    (GenReturned /\ LastStage = "generator" /\ CallsSucceeded
        /\ DOMAIN gen_call.results = {1, 2, 3})
        => \A g \in {1, 2, 3} : HoldsOwnResponse(g)

\* ---------------------------------------------------------------------- C34

\* C34: through a new request and the resumptions that follow it,
\* iteration_count never exceeds MAX_ITERATIONS, also when the run was
\* suspended at the ceiling and then resumed.
C34_IterationCap ==
    /\ state.iteration_count <= MAX_ITERATIONS
    /\ current_graph_state # <<>>
          => current_graph_state[1].iteration_count <= MAX_ITERATIONS

\* C34, amended: in the invocation of a new request iteration_count never
\* exceeds MAX_ITERATIONS; a resumed invocation whose saved state stands at
\* the ceiling or above runs generator_node once more, so the count exceeds
\* the saved one by one at most, and MAX_ITERATIONS by the number of
\* resumptions at most.
C34_OneCyclePerResumption ==
    /\ invocation.fresh => state.iteration_count <= MAX_ITERATIONS
    /\ state.iteration_count > MAX_ITERATIONS
          => /\ ~invocation.fresh
             /\ current_graph_state # <<>>
                   => state.iteration_count
                        <= current_graph_state[1].iteration_count + 1
    /\ state.iteration_count <= MAX_ITERATIONS + resumes

\* The critic asked at the ceiling, the caller answered, and the resumed
\* invocation ended in the editor with one cycle more than MAX_ITERATIONS.
C34_Witness ==
    /\ ~invocation.fresh
    /\ invocation.stages = << "generator", "critic", "editor" >>
    /\ pc = "END"
    /\ state.iteration_count = MAX_ITERATIONS + 1

\* ---------------------------------------------------------------------- C35

\* C35: whatever generator_node executions took place, lists with indices
\* that name no generator included, every session of the store belongs to
\* one of the generators 1, 2, 3.
C35_SessionKeysAreGenerators ==
    \A u \in DOMAIN chat_sessions :
       DOMAIN chat_sessions[u] \subseteq GeneratorNums

\* ---------------------------------------------------------------------- C36

\* The current invocation is a resumption and has ended with questions for
\* the caller.
SuspendedAgain ==
    /\ ~invocation.fresh
    /\ pc = "END"
    /\ state.questions_for_user # <<>>

\* The four fields of the state that critic_node returns are those of its
\* last execution in the current invocation.
VerdictOverwritten ==
    /\ state.questions_for_user
         = (IF critic_call.kind = "json" THEN critic_call.questions ELSE <<>>)
    /\ state.drafts_to_redo
         = (IF critic_call.kind = "json"
            THEN (IF critic_call.has_redo THEN critic_call.redo ELSE <<>>)
            ELSE <<1, 2, 3>>)
    /\ state.critiques
         = (IF critic_call.kind = "json"
            THEN KeyOrderConcat(critic_call.cbg, state.critiques_by_generator)
            ELSE << critic_call.content >>)
    /\ DOMAIN state.critiques_by_generator
         = (IF critic_call.kind = "json"
            THEN {IntOfKey(critic_call.cbg[i][1]) : i \in DOMAIN critic_call.cbg}
            ELSE {1, 2, 3})

\* C36: a resumed invocation ends with questions for the caller only if the
\* critic of that invocation asked them: critic_node runs before
\* decide_next_step in every invocation and overwrites critiques,
\* critiques_by_generator, questions_for_user and drafts_to_redo, so the
\* route is computed from its answer and never from the questions of the
\* saved state.
C36_SuspendsOnNewQuestionsOnly ==
    /\ SuspendedAgain
          => /\ CriticReturned
             /\ critic_call.kind = "json"
             /\ critic_call.questions # <<>>
             /\ route = "ask_user"
    /\ (~invocation.fresh /\ CriticReturned)
          => /\ VerdictOverwritten
             /\ route = decide_next_step(state)
             /\ route = "ask_user" <=> critic_call.questions # <<>>

\* The caller answered, and the critic of the resumed invocation asked
\* again: the invocation ends with its questions.
C36_Witness ==
    /\ SuspendedAgain
    /\ invocation.stages = << "generator", "critic" >>
    /\ critic_call.questions = << "q" >>
    /\ current_graph_state # <<>>
    /\ current_graph_state[1].user_response \in Prompts

====
